---------------------------- MODULE Spec2Model ----------------------------
(***************************************************************************)
(* follow-me-drone: the cross-process command channel                      *)
(* (followme/ipc.py), its writer (scripts/run_gesture.py) and its reader   *)
(* (scripts/run_tracker.py).                                               *)
(*                                                                         *)
(* Two single-threaded processes share one file.  The sensing process      *)
(* persists the whole list of gesture events after each event, through a   *)
(* temporary file and os.replace; the control process polls the file once  *)
(* per loop iteration and keeps a private cursor (_read_index).            *)
(*                                                                         *)
(* Besides the channel the module holds the snap detector of the sensing   *)
(* process (followme/gesture.py), the tracking controller and its PID      *)
(* controllers (followme/drone_controller.py, followme/pid.py) inside the  *)
(* control loop, and the shutdown of the control process (cleanup, the     *)
(* signal handler, main's finally).  Each has its own specification; the   *)
(* variables of the other components stay as Init leaves them.             *)
(***************************************************************************)
EXTENDS Integers, Sequences, FiniteSets, TLC

(***************************************************************************)
(* Bounds of the model.                                                    *)
(***************************************************************************)
\* gesture events emitted in one run, over all sensing lifetimes
MaxEvents == 3
\* restarts of each process
MaxRestarts == 1
\* times something other than the sensing process touches the cache file
MaxDamage == 1
\* how long a run of the snap detector lasts, in tenths of a second
MaxTime == 16
\* snaps detected in one run of the snap detector
MaxSnaps == 3
\* iterations of the control loop in one run
MaxCycles == 22
\* iterations of one run in which the detector finds a face
MaxSeen == 2
\* shutdown signals delivered to the control process
MaxSignals == 2
\* update calls on the controller that is exercised on its own
MaxUpdates == 4
\* iterations of the loop of the circle maneuver until its duration is over
MaxCircleSteps == 2

(***************************************************************************)
(* Program constants.                                                      *)
(***************************************************************************)
\* commands.py: class Command(IntEnum)
CIRCLE_MOTION == 1
TAKE_PHOTO == 2
\* config.py: GestureConfig.snap_threshold
snap_threshold == 50000
\* config.py: GestureConfig.snap_time_window, 0.7 s, in tenths of a second
snap_time_window == 7
\* config.py: PIDConfig kp = 0.2, ki = 0.04, kd = 0.005, as 1/kp_den, ...
kp_den == 5
ki_den == 25
kd_den == 200
\* config.py: DroneConfig
frame_width == 960
frame_height == 720
height_limit == 220
\* config.py: TrackingConfig
face_area_min == 14000
face_area_max == 15000
yaw_speed_limit == 100
vertical_speed_limit == 40
forward_speed == 20
backward_speed == -20
lost_face_threshold == 15
search_rotation_speed == 40
\* CircleMotionConfig.speed and .yaw_speed
circle_speed == -15
circle_yaw_speed == 35
\* drone_controller.py line 123: self._center_history_size
center_history_size == 20
\* TrackingConfig.loop_interval is 0.1 s: the control process counts time
\* in tenths of a second
ticks_per_second == 10
\* pid.py line 28: the default output_limits, (-100.0, 100.0)
default_output_limit == 100
\* pid.py line 29: the integral_limit the controller exercised on its own is
\* constructed with, in error * seconds
IntegralLimit == 20

\* The repetition counts SnapDetector emits in the model: the two mapped
\* counts and one count with no mapped command.
Events == {CIRCLE_MOTION, TAKE_PHOTO, 3}

\* Python's None
None == "None"

VARIABLES
    \* ---- the file system
    cache_file,     \* the canonical file (IPCConfig.cache_file)
    tmp_file,       \* the temporary file (.pkl.tmp)
    nDamaged,       \* times the cache file was touched from outside
    \* ---- the sensing process (run_gesture.main)
    wpc,            \* its position
    wop,            \* the channel method it is in: "initialize" / "write_commands"
    all_snaps,      \* main's list all_snaps
    wEpoch,         \* how many times it was restarted
    nEvents,        \* gesture events emitted so far, over all lifetimes
    \* ---- the control process (run_tracker.main)
    rpc,            \* its position
    read_index,     \* CommandChannel._read_index
    new_commands,   \* the commands of the last read still to dispatch
    rEpoch,         \* how many times it was restarted
    \* ---- history variables (observers; no action's guard reads them)
    emitted,        \* events SnapDetector emitted in this sensing lifetime
    persisted,      \* the sequence the last completed _write_atomic persisted
    cache_epoch,    \* wEpoch of the process that wrote cache_file (-1: nobody)
    delivered,      \* concatenation of the lists returned in this control lifetime
    sinceInit,      \* the same, since the last completed initialize()
    effects,        \* side-effect actions dispatched in this control lifetime
    prev_effects,   \* those of the previous control lifetime
    quiet,          \* no write completed since the last successful read
    lastRead        \* the last read_new_commands call of this control lifetime:
                    \*   n        successful loads so far (0, 1, 2 = two or more)
                    \*   pre      the cursor when it was called
                    \*   load     how open/pickle.load ended; kind: what was loaded
                    \*   raised   the exception that left the call (None: it returned)
                    \*   loaded   the list it loaded; ret: the list it returned
                    \*   inwrite  it ran inside a write_commands, between the
                    \*            open of the temporary file and the end of os.replace
                    \*   whole    it loaded the sequence persisted before that
                    \*            write, or the one being written
                    \*   written  the argument of the last completed write
                    \*   cep      cache_epoch when it was called
                    \*   quiet    no write completed since the read before it

VARIABLES
    \* ---- the snap detector of the sensing process (followme/gesture.py)
    detector,       \* the SnapDetector: _valid, _snap_count, _prev_snap_time
    wall_clock,     \* time.time(), in tenths of a second
    \* ---- history variables of the detector
    g_snaps,        \* snaps detected so far
    g_low,          \* a reading below the threshold was processed since the last snap
    g_last_snap,    \* when the last snap was detected (-1: none yet)
    g_run_gap,      \* the largest gap between two consecutive snaps so far
    g_burst_gap,    \* the same, among the snaps counted in the open burst
    g_events,       \* the events emitted so far: repetition count and the
                    \*   largest gap between two consecutive snaps counted in it
    g_call          \* the last process_reading call: when, what it detected,
                    \*   what it returned

gestureVars == << detector, wall_clock, g_snaps, g_low, g_last_snap, g_run_gap,
                  g_burst_gap, g_events, g_call >>

VARIABLES
    \* ---- the tracking controller of the control process
    tracker,        \* the FaceTracker: _yaw_pid, _vertical_pid,
                    \*   _center_history, _last_known_direction
    mono_clock,     \* time.monotonic(), in tenths of a second
    rc,             \* the last command handed to drone.send_control
    \* ---- history variables of the control loop
    t_seen,         \* iterations so far in which a face was detected
    t_call,         \* the compute_control call of the current iteration:
                    \*   face    its argument (<<>>: None); height: the altitude
                    \*   out     what it returned
                    \*   after_loss  the call before it had no face
    \* ---- the circle maneuver (CircleRecorder.execute)
    m_pc,           \* "idle", "setup" (before the try), "loop", "finally",
                    \*   "escaped" (an exception left execute)
    m_n,            \* iterations of its loop so far
    \* ---- history variables of the maneuver
    m_last,         \* the last command the maneuver sent (<<>>: none yet)
    m_outcome       \* how the maneuver ended: "none", "duration", "quit",
                    \*   "error", "setup_raised", "stop_raised"

circleVars == << m_pc, m_n, m_last, m_outcome >>
trackVars == << tracker, mono_clock, rc, t_seen, t_call, m_pc, m_n, m_last,
               m_outcome >>

VARIABLES
    \* ---- shutdown of the control process
    main_pc,        \* where run_tracker.main is: "setup" (connect, takeoff),
                    \*   "loop", "cleanup" (its finally block), "exited"
    airborne,       \* DroneConnection._airborne
    frames,         \* the executions of DroneConnection.cleanup in progress,
                    \*   innermost last: who called it, the step it is at,
                    \*   how its landing step went
    nSignals,       \* shutdown signals delivered so far
    exit_status,    \* the exit status of the control process (-1: running)
    \* ---- start and end of the sensing process (run_gesture.main)
    sense_pc,       \* "connect" (opening the serial port), "loop", "exited"
    sense_exit,     \* its exit status (-1: running)
    \* ---- history variables
    runs,           \* the executions of cleanup that ended, in the order
                    \*   they ended: returned, or cut short by sys.exit
    setup_failure,  \* the setup step of the control process that failed
    sense_failure,  \* the serial port could not be opened
    sense_closed    \* reader.close() has run

senseVars == << sense_pc, sense_exit, sense_failure, sense_closed >>
cleanupVars == << main_pc, airborne, frames, nSignals, exit_status,
                 sense_pc, sense_exit, runs, setup_failure, sense_failure,
                 sense_closed >>

VARIABLES
    \* ---- a PID controller exercised on its own (followme/pid.py)
    controller,     \* its _integral, _prev_error, _last_time
    pid_limit,      \* its integral_limit (<<>>: None)
    pid_clock,      \* time.monotonic() at its last update, in tenths of a second
    twin,           \* <<>>, or <<a controller constructed afresh when controller was
                    \*   last reset, given the same update calls since>>
    \* ---- history variables
    p_n,            \* update calls so far
    p_since,        \* update calls since construction or the last reset
    p_sign,         \* the signs of the non-zero errors since then
    p_dt_ok,        \* no negative dt since then
    p_call          \* the last update call: error, dt, the integral before it,
                    \*   the output, and the twin's output

pidVars == << controller, pid_limit, pid_clock, twin, p_n, p_since, p_sign, p_dt_ok,
              p_call >>

\* the components other than the command channel
otherVars == << gestureVars, trackVars, cleanupVars, pidVars >>

vars == << cache_file, tmp_file, nDamaged, wpc, wop, all_snaps, wEpoch, nEvents,
           rpc, read_index, new_commands, rEpoch,
           emitted, persisted, cache_epoch, delivered, sinceInit,
           effects, prev_effects, quiet, lastRead, otherVars >>

fsVars   == << cache_file, tmp_file, nDamaged >>
wVars    == << wpc, wop, all_snaps, wEpoch, nEvents, emitted >>
rVars    == << rpc, read_index, new_commands, rEpoch, delivered, sinceInit,
               effects, prev_effects, quiet, lastRead >>
wHistory == << persisted, cache_epoch >>
channelVars == << fsVars, wVars, rVars, wHistory >>

(***************************************************************************)
(* Sequences.                                                              *)
(***************************************************************************)
IsPrefix(s, t) == Len(s) <= Len(t) /\ SubSeq(t, 1, Len(s)) = s

(***************************************************************************)
(* pickle: the serialization of the file.  A file's content is a sequence  *)
(* of pickle opcodes; a value is [kind, items].                            *)
(***************************************************************************)
Tok(op) == [op |-> op, arg |-> <<>>]
IntTok(v) == [op |-> "BININT1", arg |-> <<v>>]

Value(kind, items) == [kind |-> kind, items |-> items]

\* pickle.dump(data, f) of a list of small integers, protocol 4:
\* PROTO EMPTY_LIST MEMOIZE [ item APPEND | MARK item ... APPENDS ] STOP
PickleDump(data) ==
    << Tok("PROTO"), Tok("EMPTY_LIST"), Tok("MEMOIZE") >>
    \o ( IF Len(data) = 0 THEN <<>>
         ELSE IF Len(data) = 1 THEN << IntTok(data[1]), Tok("APPEND") >>
         ELSE << Tok("MARK") >> \o [i \in 1..Len(data) |-> IntTok(data[i])]
              \o << Tok("APPENDS") >> )
    \o << Tok("STOP") >>

\* position of the topmost MARK on the unpickler's stack (0: none)
RECURSIVE LastMark(_, _)
LastMark(stack, i) ==
    IF i = 0 THEN 0
    ELSE IF stack[i].kind = "mark" THEN i
    ELSE LastMark(stack, i - 1)

Failed(exc) == [status |-> exc, value |-> Value("none", <<>>)]

\* pickle.load(f): the unpickler's stack machine over the opcodes from i on
RECURSIVE Unpickle(_, _, _)
Unpickle(bytes, i, stack) ==
    IF i > Len(bytes)
    THEN IF Len(bytes) = 0 THEN Failed("EOFError")           \* Ran out of input
         ELSE Failed("UnpicklingError")                      \* pickle data was truncated
    ELSE
    LET t   == bytes[i]
        n   == Len(stack)
        top == stack[n]
    IN  CASE t.op = "PROTO" -> Unpickle(bytes, i + 1, stack)
          [] t.op = "MEMOIZE" ->
                IF n = 0 THEN Failed("UnpicklingError")
                ELSE Unpickle(bytes, i + 1, stack)
          [] t.op = "EMPTY_LIST" ->
                Unpickle(bytes, i + 1, Append(stack, Value("list", <<>>)))
          [] t.op = "NONE" ->
                Unpickle(bytes, i + 1, Append(stack, Value("none", <<>>)))
          [] t.op = "BININT1" ->
                Unpickle(bytes, i + 1, Append(stack, Value("int", t.arg)))
          [] t.op = "SHORT_BINUNICODE" ->
                Unpickle(bytes, i + 1, Append(stack, Value("str", t.arg)))
          [] t.op = "INT" ->
                \* the text opcode: int() of a malformed line raises ValueError
                IF t.arg = <<>> THEN Failed("ValueError")
                ELSE Unpickle(bytes, i + 1, Append(stack, Value("int", t.arg)))
          [] t.op = "MARK" ->
                Unpickle(bytes, i + 1, Append(stack, Value("mark", <<>>)))
          [] t.op = "APPEND" ->
                IF n < 2 \/ top.kind # "int" \/ stack[n - 1].kind # "list"
                THEN Failed("UnpicklingError")
                ELSE Unpickle(bytes, i + 1,
                        Append(SubSeq(stack, 1, n - 2),
                               Value("list", stack[n - 1].items \o top.items)))
          [] t.op = "APPENDS" ->
                LET m == LastMark(stack, n)
                IN  IF m < 2 \/ stack[m - 1].kind # "list"
                       \/ \E k \in (m + 1)..n : stack[k].kind # "int"
                    THEN Failed("UnpicklingError")
                    ELSE Unpickle(bytes, i + 1,
                            Append(SubSeq(stack, 1, m - 2),
                                   Value("list",
                                         stack[m - 1].items
                                         \o [k \in 1..(n - m) |-> stack[m + k].items[1]])))
          [] t.op = "STOP" ->
                IF n = 0 \/ top.kind = "mark" THEN Failed("UnpicklingError")
                ELSE [status |-> "ok", value |-> top]
          [] OTHER -> Failed("UnpicklingError")              \* invalid load key

\* open(path, "rb") and pickle.load(f)
NoFile == [exists |-> FALSE, bytes |-> <<>>]
File(bytes) == [exists |-> TRUE, bytes |-> bytes]

PickleLoad(file) ==
    IF ~file.exists THEN Failed("FileNotFoundError")
    ELSE Unpickle(file.bytes, 1, <<>>)

\* the list a file holds, <<>> when it holds none
LogOf(file) ==
    LET r == PickleLoad(file)
    IN  IF r.status = "ok" /\ r.value.kind = "list" THEN r.value.items ELSE <<>>

(***************************************************************************)
(* commands.py                                                             *)
(***************************************************************************)
\* Command.from_snap_count: cls(count), None on ValueError
from_snap_count(count) ==
    IF count = CIRCLE_MOTION THEN "CIRCLE_MOTION"
    ELSE IF count = TAKE_PHOTO THEN "TAKE_PHOTO"
    ELSE None


(***************************************************************************)
(* ipc.py: CommandChannel.read_new_commands                                *)
(***************************************************************************)
\* Variant: a call that finds something new returns the whole file again
\* (the loop starts at 0 instead of at the cursor).
ReadLoop_Rereads(snaps, index, acc) ==
    IF index < Len(snaps)
    THEN LET known == SelectSeq(snaps, LAMBDA c : from_snap_count(c) # None)
         IN  [read_index |-> Len(snaps),
              new_commands |-> [i \in 1..Len(known) |-> from_snap_count(known[i])]]
    ELSE [read_index |-> index, new_commands |-> acc]

\* Variant: the loop stops one entry short (index < len(all_snaps) - 1).
RECURSIVE ReadLoop_OffByOne(_, _, _)
ReadLoop_OffByOne(snaps, index, acc) ==
    IF index + 1 < Len(snaps)
    THEN LET cmd == from_snap_count(snaps[index + 1])
         IN  ReadLoop_OffByOne(snaps, index + 1,
                               IF cmd # None THEN Append(acc, cmd) ELSE acc)
    ELSE [read_index |-> index, new_commands |-> acc]

\* Variant: the loop breaks at the first unrecognized count.
RECURSIVE ReadLoop_StopsAtUnknown(_, _, _)
ReadLoop_StopsAtUnknown(snaps, index, acc) ==
    IF index < Len(snaps) /\ from_snap_count(snaps[index + 1]) # None
    THEN ReadLoop_StopsAtUnknown(snaps, index + 1,
                                 Append(acc, from_snap_count(snaps[index + 1])))
    ELSE [read_index |-> index, new_commands |-> acc]

\* lines 60-69: the loop over the entries beyond the cursor
RECURSIVE ReadLoop(_, _, _)
ReadLoop(snaps, index, acc) ==
    IF index < Len(snaps)
    THEN LET snap_count == snaps[index + 1]
             cmd        == from_snap_count(snap_count)
         IN  ReadLoop(snaps, index + 1,
                      IF cmd # None THEN Append(acc, cmd) ELSE acc)
    ELSE [read_index |-> index, new_commands |-> acc]

\* The whole call on the file as it stands, with the cursor at index.
\*   raised: the exception that leaves the call (None: it returns)
\*   load:   how open/pickle.load ended
read_new_commands(file, index) ==
    LET r == PickleLoad(file)
        Result(raised, loaded, idx, ret) ==
            [raised |-> raised, load |-> r.status, kind |-> r.value.kind,
             loaded |-> loaded, read_index |-> idx, ret |-> ret]
    IN  IF r.status \in {"FileNotFoundError", "UnpicklingError", "EOFError"}
        THEN Result(None, <<>>, index, <<>>)            \* lines 54-58: return []
        ELSE IF r.status # "ok"
        THEN Result(r.status, <<>>, index, <<>>)        \* no except clause takes it
        ELSE IF r.value.kind \notin {"list", "str"}
        THEN Result("TypeError", <<>>, index, <<>>)     \* len(all_snaps), line 61
        ELSE LET out == ReadLoop(r.value.items, index, <<>>)
             IN  Result(None, r.value.items, out.read_index, out.new_commands)

(***************************************************************************)
(* Initial state of the snap detector: SnapDetector.__init__               *)
(***************************************************************************)
\* Optional[...] values are sequences: <<>> is None, <<v>> is the value v
NewSnapDetector == [valid |-> TRUE, snap_count |-> 0, prev_snap_time |-> <<>>]

NoCall == [now |-> -1, diff |-> 0, is_snap |-> FALSE, ret |-> <<>>]

GestureInit ==
    /\ detector = NewSnapDetector
    /\ wall_clock = 0
    /\ g_snaps = 0
    /\ g_low = FALSE
    /\ g_last_snap = -1
    /\ g_run_gap = 0
    /\ g_burst_gap = 0
    /\ g_events = <<>>
    /\ g_call = NoCall

(***************************************************************************)
(* Initial state of the tracking controller: FaceTracker.__init__ and      *)
(* PIDController's field defaults                                          *)
(***************************************************************************)
\* pid.py lines 32-34.  The integral is kept in error * tenths of a second.
NewPID == [integral |-> 0, prev_error |-> <<>>, last_time |-> <<>>]

\* drone_controller.py lines 112-124
NewFaceTracker ==
    [yaw_pid |-> NewPID, vertical_pid |-> NewPID,
     center_history |-> <<>>, last_known_direction |-> "+"]

NoTrackCall ==
    [face |-> <<>>, height |-> -1, out |-> <<>>, after_loss |-> FALSE]

TrackInit ==
    /\ tracker = NewFaceTracker
    /\ mono_clock = 0
    /\ rc = <<>>
    /\ t_seen = 0
    /\ t_call = NoTrackCall
    /\ m_pc = "idle"
    /\ m_n = 0
    /\ m_last = <<>>
    /\ m_outcome = "none"

(***************************************************************************)
(* Initial state of the shutdown machinery: run_tracker.main has created   *)
(* its components and registered the shutdown handler (lines 43-50).       *)
(***************************************************************************)
CleanupInit ==
    /\ main_pc = "setup"
    /\ airborne = FALSE
    /\ frames = <<>>
    /\ nSignals = 0
    /\ exit_status = -1
    /\ sense_pc = "connect"
    /\ sense_exit = -1
    /\ runs = <<>>
    /\ setup_failure = "none"
    /\ sense_failure = FALSE
    /\ sense_closed = FALSE

(***************************************************************************)
(* Initial state of the controller exercised on its own: PIDController's   *)
(* field defaults (pid.py lines 28-34)                                     *)
(***************************************************************************)
NoPidCall == [error |-> 0, dt |-> <<>>, was |-> 0, out |-> <<>>, twin_out |-> <<>>]

PidInit ==
    /\ controller = NewPID
    /\ pid_limit = <<>>
    /\ pid_clock = 0
    /\ twin = <<>>
    /\ p_n = 0
    /\ p_since = 0
    /\ p_sign = "none"
    /\ p_dt_ok = TRUE
    /\ p_call = NoPidCall

(***************************************************************************)
(* Initial state: both processes have just started on a machine that has   *)
(* no cache file yet; the sensing process is entering initialize().        *)
(***************************************************************************)
NoRead ==
    [n |-> 0, pre |-> 0, load |-> "none", kind |-> "none", raised |-> None,
     loaded |-> <<>>, ret |-> <<>>, inwrite |-> FALSE, whole |-> FALSE,
     written |-> <<>>, cep |-> -1, quiet |-> FALSE]

Init ==
    /\ cache_file = NoFile
    /\ tmp_file = NoFile
    /\ nDamaged = 0
    /\ wpc = "open_tmp"
    /\ wop = "initialize"
    /\ all_snaps = <<>>
    /\ wEpoch = 0
    /\ nEvents = 0
    /\ rpc = "poll"
    /\ read_index = 0
    /\ new_commands = <<>>
    /\ rEpoch = 0
    /\ emitted = <<>>
    /\ persisted = <<>>
    /\ cache_epoch = -1
    /\ delivered = <<>>
    /\ sinceInit = <<>>
    /\ effects = <<>>
    /\ prev_effects = <<>>
    /\ quiet = FALSE
    /\ lastRead = NoRead
    /\ GestureInit
    /\ TrackInit
    /\ CleanupInit
    /\ PidInit

(***************************************************************************)
(* The sensing process: run_gesture.main and CommandChannel._write_atomic  *)
(***************************************************************************)
\* the argument of the _write_atomic call in progress
WData == IF wop = "initialize" THEN <<>> ELSE all_snaps

\* ipc.py line 74: open(tmp_path, "wb") creates or truncates the temporary file
WriteOpenTmp ==
    /\ wpc = "open_tmp"
    /\ tmp_file' = File(<<>>)
    /\ wpc' = "dump"
    /\ UNCHANGED << cache_file, nDamaged, wop, all_snaps, wEpoch, nEvents, emitted >>
    /\ UNCHANGED wHistory
    /\ UNCHANGED rVars
    /\ UNCHANGED otherVars

\* Variant: the opcodes go to the canonical path as well (no temporary file
\* stands between the writer and the reader).
WriteDump_InPlace ==
    /\ wpc = "dump"
    /\ LET out == PickleDump(WData)
           k   == Len(tmp_file.bytes) + 1
       IN  /\ tmp_file' = File(SubSeq(out, 1, k))
           /\ cache_file' = File(SubSeq(out, 1, k))
           /\ wpc' = IF k = Len(out) THEN "replace" ELSE "dump"
    /\ UNCHANGED << nDamaged, wop, all_snaps, wEpoch, nEvents, emitted >>
    /\ UNCHANGED wHistory
    /\ UNCHANGED rVars
    /\ UNCHANGED otherVars

\* ipc.py line 75: pickle.dump writes the next opcode to the temporary file
WriteDump ==
    /\ wpc = "dump"
    /\ LET out == PickleDump(WData)
           k   == Len(tmp_file.bytes) + 1
       IN  /\ tmp_file' = File(SubSeq(out, 1, k))
           /\ wpc' = IF k = Len(out) THEN "replace" ELSE "dump"
    /\ UNCHANGED << cache_file, nDamaged, wop, all_snaps, wEpoch, nEvents, emitted >>
    /\ UNCHANGED wHistory
    /\ UNCHANGED rVars
    /\ UNCHANGED otherVars

\* ipc.py line 76: os.replace(tmp_path, cache_path)
WriteReplace ==
    /\ wpc = "replace"
    /\ cache_file' = tmp_file
    /\ tmp_file' = NoFile
    /\ wpc' = "loop"
    /\ persisted' = WData
    /\ cache_epoch' = wEpoch
    /\ quiet' = FALSE
    /\ sinceInit' = IF wop = "initialize" THEN <<>> ELSE sinceInit
    /\ UNCHANGED << nDamaged, wop, all_snaps, wEpoch, nEvents, emitted >>
    /\ UNCHANGED << rpc, read_index, new_commands, rEpoch, delivered,
                    effects, prev_effects, lastRead >>
    /\ UNCHANGED otherVars

\* Variant: main hands write_commands the new count alone, not the whole list.
GestureEvent_Delta(snap_count) ==
    /\ wpc = "loop"
    /\ nEvents < MaxEvents
    /\ nEvents' = nEvents + 1
    /\ all_snaps' = << snap_count >>
    /\ emitted' = Append(emitted, snap_count)
    /\ wop' = "write_commands"
    /\ wpc' = "open_tmp"
    /\ UNCHANGED << wEpoch >>
    /\ UNCHANGED fsVars
    /\ UNCHANGED wHistory
    /\ UNCHANGED rVars
    /\ UNCHANGED otherVars

\* run_gesture.py lines 49-61: process_reading returns a count, main appends
\* it to all_snaps and calls write_commands(all_snaps)
GestureEvent(snap_count) ==
    /\ wpc = "loop"
    /\ nEvents < MaxEvents
    /\ nEvents' = nEvents + 1
    /\ all_snaps' = Append(all_snaps, snap_count)
    /\ emitted' = Append(emitted, snap_count)
    /\ wop' = "write_commands"
    /\ wpc' = "open_tmp"
    /\ UNCHANGED << wEpoch >>
    /\ UNCHANGED fsVars
    /\ UNCHANGED wHistory
    /\ UNCHANGED rVars
    /\ UNCHANGED otherVars

\* The sensing process dies at any point and is started again:
\* run_gesture.py lines 38-43, a new all_snaps and a new initialize().
\* The files stay as the dead process left them.
SensingRestart ==
    /\ wEpoch < MaxRestarts
    /\ wEpoch' = wEpoch + 1
    /\ all_snaps' = <<>>
    /\ emitted' = <<>>
    /\ wop' = "initialize"
    /\ wpc' = "open_tmp"
    /\ UNCHANGED nEvents
    /\ UNCHANGED fsVars
    /\ UNCHANGED wHistory
    /\ UNCHANGED rVars
    /\ UNCHANGED otherVars

(***************************************************************************)
(* The control process: run_tracker.main                                   *)
(***************************************************************************)
\* run_tracker.py line 75: new_commands = commands.read_new_commands().
\* An exception leaving the call ends the loop (lines 93-98).
ReadNewCommands ==
    /\ rpc = "poll"
    /\ LET res == read_new_commands(cache_file, read_index)
           ok  == res.raised = None /\ res.load = "ok"
       IN  /\ read_index' = res.read_index
           /\ new_commands' = res.ret
           /\ rpc' = IF res.raised # None THEN "stopped"
                     ELSE IF res.ret = <<>> THEN "poll" ELSE "dispatch"
           /\ delivered' = delivered \o res.ret
           /\ sinceInit' = sinceInit \o res.ret
           /\ quiet' = ok
           /\ lastRead' =
                [n       |-> IF ok /\ lastRead.n < 2 THEN lastRead.n + 1 ELSE lastRead.n,
                 pre     |-> read_index,
                 load    |-> res.load,
                 kind    |-> res.kind,
                 raised  |-> res.raised,
                 loaded  |-> res.loaded,
                 ret     |-> res.ret,
                 inwrite |-> wop = "write_commands" /\ wpc \in {"dump", "replace"},
                 whole   |-> res.load = "ok" /\ res.loaded \in {persisted, all_snaps},
                 written |-> persisted,
                 cep     |-> cache_epoch,
                 quiet   |-> quiet]
    /\ UNCHANGED << rEpoch, effects, prev_effects >>
    /\ UNCHANGED fsVars
    /\ UNCHANGED wVars
    /\ UNCHANGED wHistory
    /\ UNCHANGED otherVars

\* run_tracker.py lines 76-83: the body of `for cmd in new_commands`
SideEffect(cmd) ==
    IF cmd = "CIRCLE_MOTION" THEN << "circle" >>        \* tracker.reset(); circle.execute
    ELSE IF cmd = "TAKE_PHOTO" THEN << "photo" >>       \* take_picture(frame)
    ELSE <<>>

Dispatch ==
    /\ rpc = "dispatch"
    /\ effects' = effects \o SideEffect(Head(new_commands))
    /\ new_commands' = Tail(new_commands)
    /\ rpc' = IF Tail(new_commands) = <<>> THEN "poll" ELSE "dispatch"
    /\ UNCHANGED << read_index, rEpoch, delivered, sinceInit, prev_effects,
                    quiet, lastRead >>
    /\ UNCHANGED fsVars
    /\ UNCHANGED wVars
    /\ UNCHANGED wHistory
    /\ UNCHANGED otherVars

\* Variant: the cursor outlives the process (a persisted cursor).
ControlRestart_KeepsCursor ==
    /\ rEpoch < MaxRestarts
    /\ rEpoch' = rEpoch + 1
    /\ read_index' = read_index
    /\ new_commands' = <<>>
    /\ rpc' = "poll"
    /\ delivered' = <<>>
    /\ sinceInit' = <<>>
    /\ prev_effects' = effects
    /\ effects' = <<>>
    /\ quiet' = FALSE
    /\ lastRead' = NoRead
    /\ UNCHANGED fsVars
    /\ UNCHANGED wVars
    /\ UNCHANGED wHistory
    /\ UNCHANGED otherVars

\* The control process dies at any point and is started again:
\* run_tracker.py line 46, CommandChannel.__init__ sets _read_index = 0.
ControlRestart ==
    /\ rEpoch < MaxRestarts
    /\ rEpoch' = rEpoch + 1
    /\ read_index' = 0
    /\ new_commands' = <<>>
    /\ rpc' = "poll"
    /\ delivered' = <<>>
    /\ sinceInit' = <<>>
    /\ prev_effects' = effects
    /\ effects' = <<>>
    /\ quiet' = FALSE
    /\ lastRead' = NoRead
    /\ UNCHANGED fsVars
    /\ UNCHANGED wVars
    /\ UNCHANGED wHistory
    /\ UNCHANGED otherVars

(***************************************************************************)
(* The environment: the cache file is an ordinary file; it can be removed, *)
(* cut short or overwritten by something that is not the sensing process.  *)
(***************************************************************************)
DamagedFiles ==
    { NoFile,                                               \* removed
      File(<< Tok("GARBAGE") >>),                           \* no pickle at all
      File(<< [op |-> "INT", arg |-> <<>>], Tok("STOP") >>),\* pickle.load raises ValueError
      File(<< Tok("PROTO"), IntTok(5), Tok("STOP") >>),     \* pickle of the integer 5
      File(<< Tok("PROTO"), Tok("NONE"), Tok("STOP") >>),   \* pickle of None
      File(<< Tok("PROTO"), [op |-> "SHORT_BINUNICODE", arg |-> <<97, 98>>],
              Tok("MEMOIZE"), Tok("STOP") >>) }             \* pickle of the string "ab"
    \cup { File(SubSeq(cache_file.bytes, 1, k)) :          \* cut short
             k \in 0..(Len(cache_file.bytes) - 1) }

StoreDamaged(file) ==
    /\ nDamaged < MaxDamage
    /\ nDamaged' = nDamaged + 1
    /\ file # cache_file
    /\ cache_file' = file
    /\ quiet' = FALSE
    /\ UNCHANGED tmp_file
    /\ UNCHANGED wVars
    /\ UNCHANGED wHistory
    /\ UNCHANGED << rpc, read_index, new_commands, rEpoch, delivered, sinceInit,
                    effects, prev_effects, lastRead >>
    /\ UNCHANGED otherVars

(***************************************************************************)
(* The snap detector: followme/gesture.py                                  *)
(***************************************************************************)
Max(a, b) == IF a >= b THEN a ELSE b

\* The sensor pairs the Arduino sends in the model: differences just below,
\* at and just above the threshold.
Readings ==
    { <<0, snap_threshold - 1>>, <<0, snap_threshold>>,
      <<0, snap_threshold + 1>>, <<1000, snap_threshold + 1001>> }

\* Variant: the detector re-arms as soon as the difference is no longer
\* above the threshold.
detect_edge_RearmsAtThreshold(valid, diff) ==
    IF diff > snap_threshold /\ valid
    THEN [valid |-> FALSE, is_snap |-> TRUE]
    ELSE IF diff <= snap_threshold /\ ~valid
         THEN [valid |-> TRUE, is_snap |-> FALSE]
         ELSE [valid |-> valid, is_snap |-> FALSE]

\* Variant: a difference equal to the threshold counts as a crossing.
detect_edge_FiresAtThreshold(valid, diff) ==
    IF diff >= snap_threshold /\ valid
    THEN [valid |-> FALSE, is_snap |-> TRUE]
    ELSE IF diff < snap_threshold /\ ~valid
         THEN [valid |-> TRUE, is_snap |-> FALSE]
         ELSE [valid |-> valid, is_snap |-> FALSE]

\* gesture.py lines 77-84: SnapDetector._detect_edge
detect_edge(valid, diff) ==
    IF diff > snap_threshold /\ valid
    THEN [valid |-> FALSE, is_snap |-> TRUE]
    ELSE IF diff < snap_threshold /\ ~valid
         THEN [valid |-> TRUE, is_snap |-> FALSE]
         ELSE [valid |-> valid, is_snap |-> FALSE]

\* Variant: the count is not cleared when the burst is emitted.
process_reading_KeepsCount(det, sensor1, sensor2, now) ==
    LET diff == sensor2 - sensor1
        edge == detect_edge(det.valid, diff)
    IN  IF edge.is_snap
        THEN [valid |-> edge.valid,
              snap_count |-> IF det.snap_count = 0 THEN 1 ELSE det.snap_count + 1,
              prev_snap_time |-> <<now>>,
              is_snap |-> TRUE, ret |-> <<>>]
        ELSE IF /\ det.snap_count > 0
                /\ det.prev_snap_time # <<>>
                /\ now - det.prev_snap_time[1] > snap_time_window
             THEN [valid |-> edge.valid, snap_count |-> det.snap_count,
                   prev_snap_time |-> det.prev_snap_time,
                   is_snap |-> FALSE, ret |-> <<det.snap_count>>]
             ELSE [valid |-> edge.valid, snap_count |-> det.snap_count,
                   prev_snap_time |-> det.prev_snap_time,
                   is_snap |-> FALSE, ret |-> <<>>]

\* Variant: the window is tested with >= instead of >.
process_reading_ClosesAtWindow(det, sensor1, sensor2, now) ==
    LET diff == sensor2 - sensor1
        edge == detect_edge(det.valid, diff)
    IN  IF edge.is_snap
        THEN [valid |-> edge.valid,
              snap_count |-> IF det.snap_count = 0 THEN 1 ELSE det.snap_count + 1,
              prev_snap_time |-> <<now>>,
              is_snap |-> TRUE, ret |-> <<>>]
        ELSE IF /\ det.snap_count > 0
                /\ det.prev_snap_time # <<>>
                /\ now - det.prev_snap_time[1] >= snap_time_window
             THEN [valid |-> edge.valid, snap_count |-> 0,
                   prev_snap_time |-> <<>>,
                   is_snap |-> FALSE, ret |-> <<det.snap_count>>]
             ELSE [valid |-> edge.valid, snap_count |-> det.snap_count,
                   prev_snap_time |-> det.prev_snap_time,
                   is_snap |-> FALSE, ret |-> <<>>]

\* Variant: every snap starts the count again.
process_reading_RestartsCount(det, sensor1, sensor2, now) ==
    LET diff == sensor2 - sensor1
        edge == detect_edge(det.valid, diff)
    IN  IF edge.is_snap
        THEN [valid |-> edge.valid, snap_count |-> 1,
              prev_snap_time |-> <<now>>,
              is_snap |-> TRUE, ret |-> <<>>]
        ELSE IF /\ det.snap_count > 0
                /\ det.prev_snap_time # <<>>
                /\ now - det.prev_snap_time[1] > snap_time_window
             THEN [valid |-> edge.valid, snap_count |-> 0,
                   prev_snap_time |-> <<>>,
                   is_snap |-> FALSE, ret |-> <<det.snap_count>>]
             ELSE [valid |-> edge.valid, snap_count |-> det.snap_count,
                   prev_snap_time |-> det.prev_snap_time,
                   is_snap |-> FALSE, ret |-> <<>>]

\* gesture.py lines 37-75: SnapDetector.process_reading.  The result holds
\* the detector's fields after the call, the local is_snap and the value
\* returned (ret).
process_reading(det, sensor1, sensor2, now) ==
    LET diff == sensor2 - sensor1
        edge == detect_edge(det.valid, diff)
    IN  IF edge.is_snap
        THEN [valid |-> edge.valid,
              snap_count |-> IF det.snap_count = 0 THEN 1 ELSE det.snap_count + 1,
              prev_snap_time |-> <<now>>,
              is_snap |-> TRUE, ret |-> <<>>]
        ELSE IF /\ det.snap_count > 0
                /\ det.prev_snap_time # <<>>
                /\ now - det.prev_snap_time[1] > snap_time_window
             THEN [valid |-> edge.valid, snap_count |-> 0,
                   prev_snap_time |-> <<>>,
                   is_snap |-> FALSE, ret |-> <<det.snap_count>>]
             ELSE [valid |-> edge.valid, snap_count |-> det.snap_count,
                   prev_snap_time |-> det.prev_snap_time,
                   is_snap |-> FALSE, ret |-> <<>>]

\* run_gesture.py lines 49-56: one complete sensor line is read and handed
\* to process_reading.  (A line that does not parse is skipped, line 51:
\* no call, no step.)
Reading(sensor1, sensor2) ==
    LET r   == process_reading(detector, sensor1, sensor2, wall_clock)
        gap == IF g_last_snap = -1 THEN 0 ELSE wall_clock - g_last_snap
    IN  /\ r.is_snap => g_snaps < MaxSnaps
        /\ detector' = [valid |-> r.valid, snap_count |-> r.snap_count,
                        prev_snap_time |-> r.prev_snap_time]
        /\ g_snaps' = IF r.is_snap THEN g_snaps + 1 ELSE g_snaps
        /\ g_low' = IF r.is_snap THEN FALSE
                    ELSE (g_low \/ sensor2 - sensor1 < snap_threshold)
        /\ g_last_snap' = IF r.is_snap THEN wall_clock ELSE g_last_snap
        /\ g_run_gap' = IF r.is_snap THEN Max(g_run_gap, gap) ELSE g_run_gap
        /\ g_burst_gap' =
              IF r.is_snap
              THEN (IF detector.snap_count = 0 THEN 0 ELSE Max(g_burst_gap, gap))
              ELSE (IF r.ret # <<>> THEN 0 ELSE g_burst_gap)
        /\ g_events' =
              IF r.ret # <<>>
              THEN Append(g_events, [count |-> r.ret[1], gap |-> g_burst_gap])
              ELSE g_events
        /\ g_call' = [now |-> wall_clock, diff |-> sensor2 - sensor1,
                      is_snap |-> r.is_snap, ret |-> r.ret]
        /\ UNCHANGED wall_clock
        /\ UNCHANGED << channelVars, trackVars, cleanupVars, pidVars >>

\* time passes in the sensing process
Tick ==
    /\ wall_clock < MaxTime
    /\ wall_clock' = wall_clock + 1
    /\ UNCHANGED << detector, g_snaps, g_low, g_last_snap, g_run_gap,
                    g_burst_gap, g_events, g_call >>
    /\ UNCHANGED << channelVars, trackVars, cleanupVars, pidVars >>

(***************************************************************************)
(* The PID controller: followme/pid.py.  Arithmetic is exact: time is in   *)
(* tenths of a second, the integral in error * tenths, and an output is    *)
(* the fraction num / den with den > 0.                                    *)
(***************************************************************************)
\* Python's int() on a float: truncation toward zero
Trunc(num, den) == IF num >= 0 THEN num \div den ELSE -((-num) \div den)

\* pid.py line 74 (and np.clip): max(lo, min(hi, output))
Clamp(num, den, lo, hi) ==
    IF num > hi * den THEN [num |-> hi * den, den |-> den]
    ELSE IF num < lo * den THEN [num |-> lo * den, den |-> den]
    ELSE [num |-> num, den |-> den]

\* Variant: the sum of the three terms is returned as it is.
PIDUpdate_Unclamped(pid, lo, hi, integral_limit, error, now) ==
    LET dt   == IF pid.last_time # <<>> THEN now - pid.last_time[1] ELSE 0
        sum  == pid.integral + error * dt
        lim  == IF integral_limit = <<>> THEN 0
                ELSE integral_limit[1] * ticks_per_second
        int  == IF integral_limit = <<>> THEN sum
                ELSE IF sum > lim THEN lim
                ELSE IF sum < -lim THEN -lim ELSE sum
        hasD == pid.prev_error # <<>> /\ dt > 0
        T    == IF hasD THEN dt ELSE 1
        den  == ticks_per_second * kp_den * ki_den * kd_den * T
        num  == error * (ticks_per_second * ki_den * kd_den * T)
                + int * (kp_den * kd_den * T)
                + (IF hasD
                   THEN (error - pid.prev_error[1])
                        * (ticks_per_second * ticks_per_second * kp_den * ki_den)
                   ELSE 0)
    IN  [pid |-> [integral |-> int, prev_error |-> <<error>>,
                  last_time |-> <<now>>],
         num |-> num, den |-> den]

\* Variant: the integral is accumulated but never clamped.
update_NoAntiWindup(pid, lo, hi, integral_limit, error, dt, now) ==
    LET step == IF dt # <<>> THEN dt[1]
                ELSE IF pid.last_time # <<>> THEN now - pid.last_time[1] ELSE 0
        int  == pid.integral + error * step
        hasD == pid.prev_error # <<>> /\ step > 0
        T    == IF hasD THEN step ELSE 1
        den  == ticks_per_second * kp_den * ki_den * kd_den * T
        num  == error * (ticks_per_second * ki_den * kd_den * T)
                + int * (kp_den * kd_den * T)
                + (IF hasD
                   THEN (error - pid.prev_error[1])
                        * (ticks_per_second * ticks_per_second * kp_den * ki_den)
                   ELSE 0)
        out  == Clamp(num, den, lo, hi)
    IN  [pid |-> [integral |-> int, prev_error |-> <<error>>,
                  last_time |-> <<now>>],
         num |-> out.num, den |-> out.den]

\* pid.py lines 36-74: PIDController.update(error, dt).  dt is <<>> (None:
\* taken from the clock, 0 on the first call) or <<tenths of a second>>;
\* integral_limit is <<>> (None) or <<limit>>.
update(pid, lo, hi, integral_limit, error, dt, now) ==
    LET step == IF dt # <<>> THEN dt[1]
                ELSE IF pid.last_time # <<>> THEN now - pid.last_time[1] ELSE 0
        sum  == pid.integral + error * step
        lim  == IF integral_limit = <<>> THEN 0
                ELSE integral_limit[1] * ticks_per_second
        int  == IF integral_limit = <<>> THEN sum
                ELSE IF sum > lim THEN lim
                ELSE IF sum < -lim THEN -lim ELSE sum
        hasD == pid.prev_error # <<>> /\ step > 0
        T    == IF hasD THEN step ELSE 1
        \* p + i + d over the common denominator
        den  == ticks_per_second * kp_den * ki_den * kd_den * T
        num  == error * (ticks_per_second * ki_den * kd_den * T)
                + int * (kp_den * kd_den * T)
                + (IF hasD
                   THEN (error - pid.prev_error[1])
                        * (ticks_per_second * ticks_per_second * kp_den * ki_den)
                   ELSE 0)
        out  == Clamp(num, den, lo, hi)
    IN  [pid |-> [integral |-> int, prev_error |-> <<error>>,
                  last_time |-> <<now>>],
         num |-> out.num, den |-> out.den]

\* update(error) as the tracking controller calls it: dt from the clock
PIDUpdate(pid, lo, hi, integral_limit, error, now) ==
    update(pid, lo, hi, integral_limit, error, <<>>, now)

\* Variant: the time of the last update survives the reset.
pid_reset_KeepsTime(pid) ==
    [integral |-> 0, prev_error |-> <<>>, last_time |-> pid.last_time]

\* pid.py lines 76-80: PIDController.reset
pid_reset(pid) == [integral |-> 0, prev_error |-> <<>>, last_time |-> <<>>]

(***************************************************************************)
(* The tracking controller: FaceTracker in followme/drone_controller.py    *)
(***************************************************************************)
\* drone_controller.py lines 108-109
target_x == frame_width \div 2
target_y == frame_height \div 4

\* What the face detector reports in the model (FaceInfo: centre and area of
\* the largest face): left of the frame midline and on it; areas around the
\* two area bounds.  compute_control takes any FaceInfo, so the last one has
\* the area no detection has.
Faces ==
    { [center_x |-> 400, center_y |-> 100, area |-> face_area_min - 1],
      [center_x |-> 480, center_y |-> 300, area |-> face_area_min],
      [center_x |-> 400, center_y |-> 100, area |-> face_area_max],
      [center_x |-> 480, center_y |-> 300, area |-> face_area_max + 1],
      [center_x |-> 480, center_y |-> 300, area |-> 0] }

\* Faces near opposite corners of the frame and one on the target: the
\* errors they give drive both controllers beyond their output limits.
FarFaces ==
    { [center_x |-> 80,  center_y |-> 60,  area |-> face_area_min - 1],
      [center_x |-> 480, center_y |-> 180, area |-> face_area_min],
      [center_x |-> 880, center_y |-> 640, area |-> face_area_max + 1] }

\* Tello.get_height() in the model: at and just above the height limit
Heights == { height_limit, height_limit + 1 }

\* collections.deque(maxlen = frame_width).append, drone_controller.py line 122
DequeAppend(history, entry) ==
    IF Len(history) >= frame_width
    THEN Append(Tail(history), entry)
    ELSE Append(history, entry)

\* drone_controller.py line 194: list(self._center_history)[-size:]
Recent(history) ==
    IF Len(history) <= center_history_size THEN history
    ELSE SubSeq(history, Len(history) - center_history_size + 1, Len(history))

\* drone_controller.py line 195
LostCount(history) ==
    Cardinality({ i \in 1..Len(Recent(history)) : Recent(history)[i] = <<0, 0>> })

\* Variant: the search starts when the count reaches the threshold.
handle_lost_face_AtThreshold(trk) ==
    LET history == DequeAppend(trk.center_history, <<0, 0>>)
        yaw     == IF trk.last_known_direction = "+"
                   THEN search_rotation_speed ELSE -search_rotation_speed
    IN  [trk |-> [trk EXCEPT !.center_history = history],
         out |-> IF LostCount(history) >= lost_face_threshold
                 THEN <<0, 0, 0, yaw>> ELSE <<0, 0, 0, 0>>]

\* drone_controller.py lines 189-204: FaceTracker._handle_lost_face
handle_lost_face(trk) ==
    LET history == DequeAppend(trk.center_history, <<0, 0>>)
        yaw     == IF trk.last_known_direction = "+"
                   THEN search_rotation_speed ELSE -search_rotation_speed
    IN  [trk |-> [trk EXCEPT !.center_history = history],
         out |-> IF LostCount(history) > lost_face_threshold
                 THEN <<0, 0, 0, yaw>> ELSE <<0, 0, 0, 0>>]

\* Variant: the bounds of the acceptable range are excluded from it.
compute_forward_back_Strict(area) ==
    IF face_area_min < area /\ area < face_area_max THEN 0
    ELSE IF area >= face_area_max THEN backward_speed
    ELSE IF area > 0 THEN forward_speed
    ELSE 0

\* drone_controller.py lines 179-187: FaceTracker._compute_forward_back
compute_forward_back(area) ==
    IF face_area_min <= area /\ area <= face_area_max THEN 0
    ELSE IF area > face_area_max THEN backward_speed
    ELSE IF area > 0 THEN forward_speed
    ELSE 0

\* drone_controller.py lines 146-177: compute_control with a face
track_face(trk, f, now) ==
    LET direction == IF f.center_x < frame_width \div 2 THEN "-" ELSE "+"
        x_error   == f.center_x - target_x
        y_error   == f.center_y - target_y
        yaw       == PIDUpdate(trk.yaw_pid, -yaw_speed_limit, yaw_speed_limit,
                               <<>>, x_error, now)
        vert      == PIDUpdate(trk.vertical_pid, -vertical_speed_limit,
                               vertical_speed_limit, <<>>, y_error, now)
        \* -vertical_speed_scale * vertical_raw, with vertical_speed_scale 0.5
        scaled    == Clamp(-vert.num, 2 * vert.den,
                           -vertical_speed_limit, vertical_speed_limit)
    IN  [trk |-> [yaw_pid |-> yaw.pid, vertical_pid |-> vert.pid,
                  center_history |->
                      DequeAppend(trk.center_history, <<f.center_x, f.center_y>>),
                  last_known_direction |-> direction],
         out |-> <<0, compute_forward_back(f.area),
                   Trunc(scaled.num, scaled.den), Trunc(yaw.num, yaw.den)>>]

\* Variant: losing the face clears both controllers.
compute_control_ResetsOnLoss(trk, face, now) ==
    IF face = <<>>
    THEN handle_lost_face([trk EXCEPT !.yaw_pid = NewPID, !.vertical_pid = NewPID])
    ELSE track_face(trk, face[1], now)

\* drone_controller.py lines 126-177: FaceTracker.compute_control.  face is
\* <<>> (None) or <<FaceInfo>>.  The height comparison of lines 139-141 has
\* an empty body.
compute_control(trk, face, now) ==
    IF face = <<>>
    THEN handle_lost_face(trk)
    ELSE track_face(trk, face[1], now)

\* drone_controller.py lines 206-210: FaceTracker.reset
tracker_reset(trk) ==
    [trk EXCEPT !.yaw_pid = pid_reset(trk.yaw_pid),
                !.vertical_pid = pid_reset(trk.vertical_pid),
                !.center_history = <<>>]

\* Variant: the altitude is compared with the bound compute_control's own
\* height comparison uses (face_area_max).
tracking_command_AreaLimit(height, out) ==
    IF height > face_area_max THEN <<0, 0, -10, 0>> ELSE out

\* run_tracker.py lines 68-72: the command of the iteration
tracking_command(height, out) ==
    IF height > height_limit THEN <<0, 0, -10, 0>> ELSE out

\* run_tracker.py lines 57-72 and 91: one iteration of the control loop up
\* to send_control, with the detector's result and the telemetry as inputs
ControlCycle(face, height) ==
    LET r == compute_control(tracker, face, mono_clock)
    IN  /\ m_pc = "idle"
        /\ mono_clock < MaxCycles
        /\ face # <<>> => t_seen < MaxSeen
        /\ tracker' = r.trk
        /\ rc' = tracking_command(height, r.out)
        /\ mono_clock' = mono_clock + 1
        /\ t_seen' = IF face # <<>> THEN t_seen + 1 ELSE t_seen
        /\ t_call' = [face |-> face, height |-> height, out |-> r.out,
                      after_loss |-> (t_call.out # <<>> /\ t_call.face = <<>>)]
        /\ UNCHANGED circleVars
        /\ UNCHANGED << channelVars, gestureVars, cleanupVars, pidVars >>

\* run_tracker.py lines 77-80: the iteration dispatches CIRCLE_MOTION:
\* tracker.reset(), then a maneuver after which the loop goes on, as one
\* step: execute returns only after its stop command was sent
\* (drone_controller.py line 259)
CircleMotion ==
    /\ m_pc = "idle"
    /\ t_call # NoTrackCall
    /\ tracker' = tracker_reset(tracker)
    /\ rc' = <<0, 0, 0, 0>>
    /\ t_call' = NoTrackCall
    /\ UNCHANGED << mono_clock, t_seen >>
    /\ UNCHANGED circleVars
    /\ UNCHANGED << channelVars, gestureVars, cleanupVars, pidVars >>

\* The maneuver step by step.
\* run_tracker.py lines 77-80: tracker.reset(), then circle.execute(drone)
\* is entered
DispatchCircle ==
    /\ m_pc = "idle"
    /\ t_call # NoTrackCall
    /\ tracker' = tracker_reset(tracker)
    /\ t_call' = NoTrackCall
    /\ m_pc' = "setup"
    /\ m_n' = 0
    /\ m_last' = <<>>
    /\ m_outcome' = "none"
    /\ UNCHANGED << mono_clock, rc, t_seen >>
    /\ UNCHANGED << channelVars, gestureVars, cleanupVars, pidVars >>

\* drone_controller.py lines 234-242: the first frame, its shape and the
\* video writer, before the try statement; an exception here (get_frame
\* raising, frame.shape of a missing frame) leaves execute at once and
\* reaches the except clause of main (run_tracker.py line 93)
ExecuteSetup(outcome) ==
    /\ m_pc = "setup"
    /\ IF outcome = "ok"
       THEN m_pc' = "loop" /\ m_outcome' = m_outcome
       ELSE m_pc' = "escaped" /\ m_outcome' = "setup_raised"
    /\ UNCHANGED << tracker, mono_clock, rc, t_seen, t_call, m_n, m_last >>
    /\ UNCHANGED << channelVars, gestureVars, cleanupVars, pidVars >>

\* how an iteration of the loop of execute can end
StepOutcomes == {"sent", "quit", "raised"}

\* drone_controller.py lines 244-257: an iteration of the loop: the motion
\* command of line 250, then the quit key (lines 253-255); an exception
\* (get_frame, video.write, send_control) is logged by the except clause
ExecuteStep(outcome) ==
    /\ m_pc = "loop"
    /\ m_n < MaxCircleSteps
    /\ IF outcome = "raised"
       THEN /\ m_pc' = "finally"
            /\ m_outcome' = "error"
            /\ UNCHANGED << rc, m_n, m_last >>
       ELSE /\ rc' = <<circle_speed, 0, 0, circle_yaw_speed>>
            /\ m_last' = << <<circle_speed, 0, 0, circle_yaw_speed>> >>
            /\ m_n' = m_n + 1
            /\ IF outcome = "quit"
               THEN m_pc' = "finally" /\ m_outcome' = "quit"
               ELSE m_pc' = "loop" /\ m_outcome' = m_outcome
    /\ UNCHANGED << tracker, mono_clock, t_seen, t_call >>
    /\ UNCHANGED << channelVars, gestureVars, cleanupVars, pidVars >>

\* drone_controller.py line 244: the duration has passed
ExecuteExpires ==
    /\ m_pc = "loop"
    /\ m_n = MaxCircleSteps
    /\ m_pc' = "finally"
    /\ m_outcome' = "duration"
    /\ UNCHANGED << tracker, mono_clock, rc, t_seen, t_call, m_n, m_last >>
    /\ UNCHANGED << channelVars, gestureVars, cleanupVars, pidVars >>

\* drone_controller.py lines 258-261: the stop command of the finally
\* clause; send_control raising here leaves execute with the exception
ExecuteFinally(outcome) ==
    /\ m_pc = "finally"
    /\ IF outcome = "ok"
       THEN /\ rc' = <<0, 0, 0, 0>>
            /\ m_last' = << <<0, 0, 0, 0>> >>
            /\ m_pc' = "idle"
            /\ m_outcome' = m_outcome
       ELSE /\ m_pc' = "escaped"
            /\ m_outcome' = "stop_raised"
            /\ UNCHANGED << rc, m_last >>
    /\ UNCHANGED << tracker, mono_clock, t_seen, t_call, m_n >>
    /\ UNCHANGED << channelVars, gestureVars, cleanupVars, pidVars >>

(***************************************************************************)
(* Shutdown of the control process: DroneConnection.cleanup                *)
(* (drone_controller.py), the signal handler (utils.py) and main's         *)
(* try / finally (run_tracker.py)                                          *)
(***************************************************************************)
\* a call of drone.cleanup() that has just begun
NewFrame(by) == [by |-> by, at |-> "land", land |-> "none", was_airborne |-> FALSE]

\* how a step that talks to the drone can end
Outcomes == {"ok", "raised"}

\* an execution of cleanup that returned
Returned(frame, stream) ==
    [by |-> frame.by, land |-> frame.land, was_airborne |-> frame.was_airborne,
     stream |-> stream, end |-> "returned"]

\* executions left by the SystemExit of a handler that interrupted them,
\* innermost first
CutShort(below) ==
    [i \in 1..Len(below) |->
        LET frame == below[Len(below) + 1 - i]
        IN  [by |-> frame.by, land |-> frame.land,
             was_airborne |-> frame.was_airborne,
             stream |-> "none", end |-> "cut"]]

\* The innermost execution of cleanup returns.  In main's finally main then
\* returns and the process ends with status 0 (run_tracker.py lines 96-102).  In the signal handler
\* sys.exit(0) follows (utils.py line 40): SystemExit is not an Exception,
\* so it leaves every interrupted execution of cleanup (drone_controller.py
\* lines 83, 87) and main's except clause (run_tracker.py line 93), and
\* runs main's finally if main has not entered it yet.
CleanupReturns(stream) ==
    LET top   == frames[Len(frames)]
        below == SubSeq(frames, 1, Len(frames) - 1)
    IN  IF top.by = "main"
        THEN /\ runs' = Append(runs, Returned(top, stream))
             /\ frames' = <<>>
             /\ main_pc' = "exited"
             /\ exit_status' = 0
        ELSE /\ runs' = Append(runs, Returned(top, stream)) \o CutShort(below)
             /\ IF main_pc \in {"setup", "loop"}
                THEN /\ main_pc' = "cleanup"
                     /\ frames' = << NewFrame("main") >>
                     /\ exit_status' = exit_status
                ELSE /\ main_pc' = "exited"
                     /\ frames' = <<>>
                     /\ exit_status' = 0

\* run_tracker.py lines 53-54: connect() and takeoff().  An exception goes
\* to lines 93-96; takeoff sets _airborne before its ascent command
\* (drone_controller.py lines 47-50).
Setup(outcome) ==
    /\ main_pc = "setup"
    /\ frames = <<>>
    /\ airborne' = (outcome \in {"ascent_raised", "flying"})
    /\ IF outcome = "flying"
       THEN main_pc' = "loop" /\ frames' = frames
       ELSE main_pc' = "cleanup" /\ frames' = << NewFrame("main") >>
    /\ setup_failure' = IF outcome = "flying" THEN "none" ELSE outcome
    /\ UNCHANGED << nSignals, runs, exit_status >>
    /\ UNCHANGED senseVars
    /\ UNCHANGED << channelVars, gestureVars, trackVars, pidVars >>

\* run_tracker.py lines 87-96: the quit key or an exception ends the loop
\* and main's finally calls drone.cleanup()
LoopEnds ==
    /\ main_pc = "loop"
    /\ frames = <<>>
    /\ main_pc' = "cleanup"
    /\ frames' = << NewFrame("main") >>
    /\ UNCHANGED << airborne, nSignals, runs, exit_status, setup_failure >>
    /\ UNCHANGED senseVars
    /\ UNCHANGED << channelVars, gestureVars, trackVars, pidVars >>

\* utils.py lines 36-39: SIGINT or SIGTERM arrives, at any point of the
\* process, and the handler calls cleanup_fn()
Signal ==
    /\ main_pc # "exited"
    /\ nSignals < MaxSignals
    /\ nSignals' = nSignals + 1
    /\ frames' = Append(frames, NewFrame("handler"))
    /\ UNCHANGED << main_pc, airborne, runs, exit_status, setup_failure >>
    /\ UNCHANGED senseVars
    /\ UNCHANGED << channelVars, gestureVars, trackVars, pidVars >>

\* run_tracker.py line 44: FaceDetector(...) raises FileNotFoundError when
\* the classifier file is missing (face_detector.py lines 42-43), before the
\* try block: the exception leaves main and the interpreter ends with status 1
ClassifierMissing ==
    /\ main_pc = "setup"
    /\ frames = <<>>
    /\ main_pc' = "exited"
    /\ exit_status' = 1
    /\ setup_failure' = "classifier_missing"
    /\ UNCHANGED << airborne, frames, nSignals, runs >>
    /\ UNCHANGED senseVars
    /\ UNCHANGED << channelVars, gestureVars, trackVars, pidVars >>

\* run_gesture.py lines 45-47 and 65-69: reader.connect() opens the serial
\* port; serial.Serial raising is caught by 'except Exception', finally
\* calls reader.close(), main returns and the process ends with status 0
SenseConnect(outcome) ==
    /\ sense_pc = "connect"
    /\ IF outcome = "ok"
       THEN /\ sense_pc' = "loop"
            /\ UNCHANGED << sense_exit, sense_failure, sense_closed >>
       ELSE /\ sense_pc' = "exited"
            /\ sense_failure' = TRUE
            /\ sense_closed' = TRUE
            /\ sense_exit' = 0
    /\ UNCHANGED << main_pc, airborne, frames, nSignals, exit_status, runs,
                    setup_failure >>
    /\ UNCHANGED << channelVars, gestureVars, trackVars, pidVars >>

\* run_gesture.py lines 63-69: Ctrl+C or an exception ends the read loop
SenseStops ==
    /\ sense_pc = "loop"
    /\ sense_pc' = "exited"
    /\ sense_closed' = TRUE
    /\ sense_exit' = 0
    /\ UNCHANGED sense_failure
    /\ UNCHANGED << main_pc, airborne, frames, nSignals, exit_status, runs,
                    setup_failure >>
    /\ UNCHANGED << channelVars, gestureVars, trackVars, pidVars >>

\* Variant: one try block around both steps, so a failed landing ends the
\* execution.
CleanupLand_OneTry(outcome) ==
    /\ frames # <<>>
    /\ frames[Len(frames)].at = "land"
    /\ IF airborne /\ outcome = "raised"
       THEN /\ CleanupReturns("none")
            /\ UNCHANGED airborne
       ELSE /\ frames' = [frames EXCEPT ![Len(frames)] =
                  [@ EXCEPT !.at = "stream",
                            !.land = IF airborne THEN outcome ELSE "skipped",
                            !.was_airborne = airborne]]
            /\ airborne' = FALSE
            /\ UNCHANGED << main_pc, runs, exit_status >>
    /\ UNCHANGED << nSignals, setup_failure >>
    /\ UNCHANGED senseVars
    /\ UNCHANGED << channelVars, gestureVars, trackVars, pidVars >>

\* drone_controller.py lines 81-84 with land(), lines 72-77: the landing
\* step of the innermost execution.  tello.land() is called only when
\* _airborne; if it raises, _airborne stays set and the exception is logged.
CleanupLand(outcome) ==
    /\ frames # <<>>
    /\ frames[Len(frames)].at = "land"
    /\ frames' = [frames EXCEPT ![Len(frames)] =
          [@ EXCEPT !.at = "stream",
                    !.land = IF airborne THEN outcome ELSE "skipped",
                    !.was_airborne = airborne]]
    /\ airborne' = (airborne /\ outcome = "raised")
    /\ UNCHANGED << main_pc, nSignals, runs, exit_status, setup_failure >>
    /\ UNCHANGED senseVars
    /\ UNCHANGED << channelVars, gestureVars, trackVars, pidVars >>

\* drone_controller.py lines 85-88: the stream step of the innermost
\* execution; an exception is logged; then cleanup returns
CleanupStream(outcome) ==
    /\ frames # <<>>
    /\ frames[Len(frames)].at = "stream"
    /\ CleanupReturns(outcome)
    /\ UNCHANGED << airborne, nSignals, setup_failure >>
    /\ UNCHANGED senseVars
    /\ UNCHANGED << channelVars, gestureVars, trackVars, pidVars >>

(***************************************************************************)
(* A PID controller exercised on its own: any caller of followme/pid.py    *)
(***************************************************************************)
\* the errors and the dt arguments of the update calls in the model; <<>> is
\* dt = None, and a caller may hand in a negative dt
PidErrors == { -120, 0, 50 }
PidDts == { <<>>, <<2>>, <<-1>> }

\* the sign of the non-zero errors of a sequence, given one more error
SignWith(sign, error) ==
    IF error = 0 THEN sign
    ELSE IF error > 0
         THEN (IF sign \in {"none", "pos"} THEN "pos" ELSE "mixed")
         ELSE (IF sign \in {"none", "neg"} THEN "neg" ELSE "mixed")

\* pid.py lines 27-29: the controller is constructed with an integral_limit
PidConfigure ==
    /\ p_n = 0
    /\ pid_limit = <<>>
    /\ pid_limit' = << IntegralLimit >>
    /\ UNCHANGED << controller, pid_clock, twin, p_n, p_since, p_sign, p_dt_ok, p_call >>
    /\ UNCHANGED << channelVars, gestureVars, trackVars, cleanupVars >>

\* pid.py lines 36-74: one update call, elapsed tenths of a second after
\* the one before; the twin, if there is one, gets the same call
PidUpdate(error, dt, elapsed) ==
    LET now == pid_clock + elapsed
        r   == update(controller, -default_output_limit, default_output_limit,
                      pid_limit, error, dt, now)
        t   == update(twin[1], -default_output_limit, default_output_limit,
                      pid_limit, error, dt, now)
    IN  /\ p_n < MaxUpdates
        /\ controller' = r.pid
        /\ twin' = IF twin = <<>> THEN <<>> ELSE << t.pid >>
        /\ pid_clock' = now
        /\ p_n' = p_n + 1
        /\ p_since' = p_since + 1
        /\ p_sign' = SignWith(p_sign, error)
        /\ p_dt_ok' = (p_dt_ok /\ (dt = <<>> \/ dt[1] >= 0))
        /\ p_call' = [error |-> error, dt |-> dt, was |-> controller.integral,
                      out |-> <<r.num, r.den>>,
                      twin_out |-> IF twin = <<>> THEN <<>> ELSE <<t.num, t.den>>]
        /\ UNCHANGED pid_limit
        /\ UNCHANGED << channelVars, gestureVars, trackVars, cleanupVars >>

\* pid.py lines 76-80: reset(); from here on a controller constructed
\* afresh with the same gains and limits runs beside it
PidReset ==
    /\ p_since > 0
    /\ controller' = pid_reset(controller)
    /\ twin' = << NewPID >>
    /\ p_since' = 0
    /\ p_sign' = "none"
    /\ p_dt_ok' = TRUE
    /\ p_call' = NoPidCall
    /\ UNCHANGED << pid_limit, pid_clock, p_n >>
    /\ UNCHANGED << channelVars, gestureVars, trackVars, cleanupVars >>

(***************************************************************************)
(* Specifications.                                                         *)
(***************************************************************************)
\* one lifetime of each process
NextLife ==
    \/ WriteOpenTmp
    \/ WriteDump
    \/ WriteReplace
    \/ \E snap_count \in Events : GestureEvent(snap_count)
    \/ ReadNewCommands
    \/ Dispatch

SpecLife == Init /\ [][NextLife]_vars

\* one lifetime of the sensing process, the control process restarted at any point
NextControl ==
    \/ NextLife
    \/ ControlRestart

SpecControl == Init /\ [][NextControl]_vars

\* the two processes, each restarted at any point
Next ==
    \/ NextLife
    \/ SensingRestart
    \/ ControlRestart

Spec == Init /\ [][Next]_vars

\* one lifetime of each process, on a file system where something else
\* overwrites, truncates or removes the cache file
NextStore ==
    \/ NextLife
    \/ \E file \in DamagedFiles : StoreDamaged(file)

SpecStore == Init /\ [][NextStore]_vars

\* The snap detector alone, fed by the sensor stream.
NextGesture ==
    \/ Tick
    \/ \E r \in Readings : Reading(r[1], r[2])

SpecGesture == Init /\ [][NextGesture]_vars

\* The same, with time passing and sensor lines arriving for ever
\* (run_gesture.py line 49: while True).
SpecGestureLive ==
    /\ SpecGesture
    /\ WF_vars(Tick)
    /\ WF_vars(\E r \in Readings : Reading(r[1], r[2]))

\* The control loop alone: tracking and the circle maneuver.
NextTrack ==
    \/ \E face \in {<<>>} \cup { <<f>> : f \in Faces }, height \in Heights :
          ControlCycle(face, height)
    \/ CircleMotion

SpecTrack == Init /\ [][NextTrack]_vars

\* what the detector returns in the iterations around a maneuver: no face,
\* or a face to the left of and above the target
CircleFaces ==
    { <<>>, << [center_x |-> 80, center_y |-> 60, area |-> face_area_min - 1] >> }

\* the control loop with the maneuver taken step by step
NextCircle ==
    \/ \E face \in CircleFaces : ControlCycle(face, height_limit)
    \/ DispatchCircle
    \/ \E outcome \in Outcomes : ExecuteSetup(outcome)
    \/ \E outcome \in StepOutcomes : ExecuteStep(outcome)
    \/ ExecuteExpires
    \/ \E outcome \in Outcomes : ExecuteFinally(outcome)

SpecCircle == Init /\ [][NextCircle]_vars

\* The control loop with the subject moving across the whole frame, at a
\* safe altitude.
NextOutputs ==
    \/ \E face \in {<<>>} \cup { <<f>> : f \in FarFaces } :
          ControlCycle(face, height_limit)
    \/ CircleMotion

SpecOutputs == Init /\ [][NextOutputs]_vars

\* A PID controller alone, with or without an integral limit.
NextPid ==
    \/ PidConfigure
    \/ \E error \in PidErrors, dt \in PidDts, elapsed \in {0, 1} :
          PidUpdate(error, dt, elapsed)
    \/ PidReset

SpecPid == Init /\ [][NextPid]_vars

\* Start and shutdown of the control process.
NextCleanup ==
    \/ \E outcome \in {"connect_raised", "takeoff_raised", "ascent_raised", "flying"} :
          Setup(outcome)
    \/ ClassifierMissing
    \/ LoopEnds
    \/ Signal
    \/ \E outcome \in Outcomes : SenseConnect(outcome)
    \/ SenseStops
    \/ \E outcome \in Outcomes : CleanupLand(outcome)
    \/ \E outcome \in Outcomes : CleanupStream(outcome)

SpecCleanup == Init /\ [][NextCleanup]_vars


(***************************************************************************)
(* Vocabulary of the properties.                                           *)
(***************************************************************************)
Recognized(count) == count \in {CIRCLE_MOTION, TAKE_PHOTO}

CommandOf(count) ==
    IF count = CIRCLE_MOTION THEN "CIRCLE_MOTION" ELSE "TAKE_PHOTO"

\* the commands of the recognized entries of a log, in log order
RecognizedCommands(log) ==
    LET known == SelectSeq(log, Recognized)
    IN  [i \in 1..Len(known) |-> CommandOf(known[i])]

\* the side-effect action of each command of a list
EffectsOf(cmds) ==
    [i \in 1..Len(cmds) |-> IF cmds[i] = "CIRCLE_MOTION" THEN "circle" ELSE "photo"]

\* the persisted command log
Log == LogOf(cache_file)

\* read_new_commands has been called in this control lifetime
ReadCalled == lastRead.load # "none"
\* ... and loaded a list
ReadLoaded == lastRead.load = "ok" /\ lastRead.kind = "list"

(***************************************************************************)
(* C1.  Within one lifetime of each process, under every interleaving of   *)
(* write_commands and read_new_commands, the concatenation of the lists    *)
(* returned so far is exactly the recognized commands of the log prefix    *)
(* [0, cursor), in log order: no entry is skipped, none delivered twice.   *)
(* Checked under SpecLife.                                                 *)
(***************************************************************************)
C1_NoLossNoDuplication ==
    /\ read_index <= Len(Log)
    /\ delivered = RecognizedCommands(SubSeq(Log, 1, read_index))

\* two reads that each delivered something, the second from a cursor > 0,
\* over a log that also holds an unrecognized count
C1_Witness ==
    /\ lastRead.pre > 0
    /\ lastRead.ret # <<>>
    /\ Len(delivered) > Len(lastRead.ret)
    /\ Len(delivered) < read_index

(***************************************************************************)
(* C2.  A read_new_commands that runs during a write_commands, between the *)
(* open of the temporary file and the end of os.replace, loads the         *)
(* complete sequence persisted before or the complete new one, never a     *)
(* part of one; and the canonical file changes only in the replace step.   *)
(* Checked under SpecLife.                                                 *)
(***************************************************************************)
C2_AtomicReplace ==
    /\ [](lastRead.inwrite => lastRead.whole)
    /\ [][cache_file' # cache_file => (wpc = "replace" /\ wpc' = "loop")]_vars

\* a read that ran while the temporary file held a part of the new,
\* longer sequence, and loaded the old non-empty one
C2_Witness ==
    /\ lastRead.inwrite
    /\ lastRead.loaded # <<>>
    /\ lastRead.loaded = lastRead.written
    /\ wpc = "dump"
    /\ Len(tmp_file.bytes) > 0

(***************************************************************************)
(* C3.  In every reachable state of the two-process system, either process *)
(* restarted at any point, the cursor is at most the length of the         *)
(* persisted log.  Checked under Spec.                                     *)
(***************************************************************************)
C3_CursorWithinLog == read_index <= Len(Log)

(***************************************************************************)
(* C4.  After a restart of the sensing process with the control process    *)
(* still running, every event written after the restart is delivered:      *)
(* once a read has loaded a log the restarted process wrote, the reader    *)
(* has been handed, since that process's initialize(), at least as many    *)
(* commands as the log holds recognized events.  Checked under Spec.       *)
(***************************************************************************)
C4_DeliveredAfterSensingRestart ==
    (rEpoch = 0 /\ ReadLoaded /\ lastRead.cep >= 1)
        => Len(sinceInit) >= Len(RecognizedCommands(lastRead.loaded))

(***************************************************************************)
(* C5.  During one lifetime of the sensing process the persisted log only  *)
(* grows: initialize() leaves it empty, and every later change of the file *)
(* keeps the persisted sequence as a prefix, adds exactly one event, and   *)
(* leaves the events SnapDetector emitted, in their order.                 *)
(* Checked under SpecLife.                                                 *)
(***************************************************************************)
C5_LogOnlyGrows ==
    [][cache_file' # cache_file =>
         /\ PickleLoad(cache_file').status = "ok"
         /\ IF wop = "initialize"
            THEN LogOf(cache_file') = <<>>
            ELSE /\ IsPrefix(LogOf(cache_file), LogOf(cache_file'))
                 /\ Len(LogOf(cache_file')) = Len(LogOf(cache_file)) + 1
                 /\ LogOf(cache_file') = emitted]_vars

\* the log after the third event
C5_Witness == Len(Log) = MaxEvents /\ Log = emitted /\ wop = "write_commands"

(***************************************************************************)
(* C6.  Round trip: a read from cursor 0 after write_commands(s), s over   *)
(* {1, 2}, returns the commands of s, element by element and in order; a   *)
(* read with no write since the read before it returns the empty list and  *)
(* leaves the cursor where it was.  Checked under SpecLife.                *)
(***************************************************************************)
C6_RoundTrip ==
    /\ ( /\ ReadCalled
         /\ lastRead.cep >= 0
         /\ lastRead.pre = 0
         /\ \A i \in 1..Len(lastRead.written) : Recognized(lastRead.written[i]) )
       => /\ lastRead.raised = None
          /\ lastRead.ret = [i \in 1..Len(lastRead.written) |->
                                CommandOf(lastRead.written[i])]
          /\ read_index = Len(lastRead.written)
    /\ (ReadCalled /\ lastRead.quiet)
       => /\ lastRead.raised = None
          /\ lastRead.ret = <<>>
          /\ read_index = lastRead.pre

\* [1, 2, 1] was written and read from cursor 0, and the read after it,
\* with no write in between, has returned
C6_Witness ==
    /\ lastRead.quiet
    /\ lastRead.written = << 1, 2, 1 >>
    /\ delivered = << "CIRCLE_MOTION", "TAKE_PHOTO", "CIRCLE_MOTION" >>
    /\ lastRead.pre = 3

(***************************************************************************)
(* C7.  read_new_commands returns one entry for every log element it       *)
(* consumes: as many entries as the cursor advanced, a Command for 1 and   *)
(* 2, None for every other value, in log order.  Checked under SpecLife.   *)
(***************************************************************************)
C7_OneEntryPerElement ==
    ReadLoaded =>
        /\ Len(lastRead.ret) = read_index - lastRead.pre
        /\ \A i \in 1..Len(lastRead.ret) :
              lastRead.ret[i] =
                 IF Recognized(lastRead.loaded[lastRead.pre + i])
                 THEN CommandOf(lastRead.loaded[lastRead.pre + i])
                 ELSE None

(***************************************************************************)
(* C8.  A log value outside the Command enum never blocks or reorders      *)
(* delivery: every read moves the cursor to the end of the log it loaded,  *)
(* returns the commands of the recognized entries beyond the old cursor    *)
(* in log order, and the dispatch loop runs one side-effect action per     *)
(* recognized entry and none for an unrecognized one.                      *)
(* Checked under SpecLife.                                                 *)
(***************************************************************************)
C8_UnrecognizedSkipped ==
    ReadLoaded =>
        /\ read_index = Len(lastRead.loaded)
        /\ lastRead.ret =
              RecognizedCommands(SubSeq(lastRead.loaded, lastRead.pre + 1,
                                        Len(lastRead.loaded)))
        /\ effects \o EffectsOf(new_commands) =
              EffectsOf(RecognizedCommands(SubSeq(lastRead.loaded, 1, read_index)))

\* [1, 3, 2] read at once and dispatched: two actions, none for the 3
C8_Witness ==
    /\ ReadLoaded
    /\ lastRead.loaded = << 1, 3, 2 >>
    /\ lastRead.pre = 0
    /\ read_index = 3
    /\ rpc = "poll"
    /\ effects = << "circle", "photo" >>

(***************************************************************************)
(* C9.  For every way the backing file can be unusable (missing, cut       *)
(* short, no valid serialization, or a valid serialization of something    *)
(* that is not a list of integers) read_new_commands returns the empty     *)
(* list, raises nothing and leaves the cursor unchanged.                   *)
(* Checked under SpecStore.                                                *)
(***************************************************************************)
C9_UnusableFileNonFatal ==
    (ReadCalled /\ ~ReadLoaded) =>
        /\ lastRead.raised = None
        /\ lastRead.ret = <<>>
        /\ read_index = lastRead.pre
        /\ rpc # "stopped"

(***************************************************************************)
(* C10.  A restarted control process starts with cursor 0, and its first   *)
(* successful read returns every recognized command of the whole persisted *)
(* log, those the previous control process executed included.              *)
(* Checked under SpecControl.                                              *)
(***************************************************************************)
C10_RestartRedelivers ==
    rEpoch >= 1 =>
        /\ lastRead.n = 0 => read_index = 0
        /\ (lastRead.n = 1 /\ ReadLoaded) =>
              /\ lastRead.pre = 0
              /\ lastRead.loaded = lastRead.written
              /\ lastRead.ret = RecognizedCommands(lastRead.written)

\* the restarted process was handed again what the previous one executed
C10_Witness ==
    /\ rEpoch = 1
    /\ lastRead.n = 1
    /\ Len(prev_effects) >= 2
    /\ IsPrefix(prev_effects, EffectsOf(lastRead.ret))


(***************************************************************************)
(* C11: a burst of N >= 1 detected snaps, each less than time_window after *)
(* the one before, followed by a quiet period longer than time_window in   *)
(* which readings keep arriving, makes process_reading emit exactly one    *)
(* event, and its repetition count is N.                                   *)
(* While every gap so far is shorter than the window, at most one event    *)
(* was emitted, it counts all the snaps, and it was emitted as soon as a   *)
(* reading was processed more than time_window after the last snap.        *)
(***************************************************************************)
C11_OneEventPerBurst ==
    (g_snaps >= 1 /\ g_run_gap < snap_time_window) =>
        /\ Len(g_events) <= 1
        /\ \A i \in 1..Len(g_events) : g_events[i].count = g_snaps
        /\ (~g_call.is_snap /\ g_call.now - g_last_snap > snap_time_window)
              => Len(g_events) = 1

C11_Witness ==
    /\ g_snaps = MaxSnaps
    /\ g_run_gap > 0
    /\ g_run_gap < snap_time_window
    /\ g_events = << [count |-> MaxSnaps, gap |-> g_run_gap] >>
    /\ g_call.ret = <<>>
    /\ g_call.now - g_last_snap > snap_time_window + 1

(***************************************************************************)
(* C12: hysteresis.  A snap is detected only if it is the first one or a   *)
(* reading with diff strictly below the threshold was processed since the  *)
(* snap before it; readings that stay at or above the threshold after the  *)
(* first crossing give no second edge.                                     *)
(***************************************************************************)
C12_Hysteresis == [][g_snaps' > g_snaps => (g_snaps = 0 \/ g_low)]_vars

C12_Witness ==
    /\ g_snaps = 2
    /\ ~g_low
    /\ ~g_call.is_snap
    /\ g_call.diff > snap_threshold
    /\ g_call.now > g_last_snap

(***************************************************************************)
(* C13: two snaps detected more than time_window apart are never counted   *)
(* in the same emitted event: in every emitted event, each snap counted    *)
(* came no more than time_window after the snap counted before it.         *)
(***************************************************************************)
C13_BurstWithinWindow ==
    \A i \in 1..Len(g_events) : g_events[i].gap <= snap_time_window


(***************************************************************************)
(* Vocabulary of the claims about the control loop.                        *)
(***************************************************************************)
\* the current iteration has called compute_control
Called == t_call.out # <<>>

\* absent-observation sentinels among the last center_history_size entries
Sentinels(history) ==
    Cardinality({ i \in 1..Len(history) :
                    /\ i > Len(history) - center_history_size
                    /\ history[i] = <<0, 0>> })

\* the state of a controller that was reset and then updated once
OnceUpdated(error, now) == [integral |-> 0, prev_error |-> <<error>>,
                            last_time |-> <<now>>]

(***************************************************************************)
(* C14: on an absent observation compute_control returns the search        *)
(* rotation (0, 0, 0, +/-search_rotation_speed), signed by                 *)
(* last_known_direction, exactly when the sentinels among the last 20      *)
(* history entries exceed lost_face_threshold, and (0, 0, 0, 0) otherwise; *)
(* lost_face_threshold + 1 absent observations in a row with direction     *)
(* right give positive yaw.                                                *)
(***************************************************************************)
C14_LostFaceSearch ==
    (Called /\ t_call.face = <<>>) =>
        LET h == tracker.center_history
            n == Sentinels(h)
        IN  /\ n > lost_face_threshold =>
                  t_call.out = <<0, 0, 0,
                                 IF tracker.last_known_direction = "+"
                                 THEN search_rotation_speed
                                 ELSE -search_rotation_speed>>
            /\ n <= lost_face_threshold => t_call.out = <<0, 0, 0, 0>>
            /\ ( /\ Len(h) > lost_face_threshold
                 /\ \A i \in 1..Len(h) :
                       i >= Len(h) - lost_face_threshold => h[i] = <<0, 0>>
                 /\ tracker.last_known_direction = "+" )
               => t_call.out = <<0, 0, 0, search_rotation_speed>>

C14_Witness ==
    /\ Called
    /\ t_call.face = <<>>
    /\ Len(tracker.center_history) = lost_face_threshold + 2
    /\ tracker.center_history[1][1] >= frame_width \div 2
    /\ Sentinels(tracker.center_history) = lost_face_threshold + 1
    /\ t_call.out = <<0, 0, 0, search_rotation_speed>>

(***************************************************************************)
(* C15: a compute_control call with an absent observation leaves both PID  *)
(* states and last_known_direction as they were; a call with a real        *)
(* observation sets the direction to left when center_x is below the frame *)
(* midline and to right otherwise, and nothing else changes it.            *)
(***************************************************************************)
C15_LossLeavesControllers ==
    [][ /\ mono_clock' # mono_clock =>
            IF t_call'.face = <<>>
            THEN /\ tracker'.yaw_pid = tracker.yaw_pid
                 /\ tracker'.vertical_pid = tracker.vertical_pid
                 /\ tracker'.last_known_direction = tracker.last_known_direction
            ELSE tracker'.last_known_direction =
                    IF t_call'.face[1].center_x < frame_width \div 2
                    THEN "-" ELSE "+"
        /\ tracker'.last_known_direction # tracker.last_known_direction =>
            (mono_clock' # mono_clock /\ t_call'.face # <<>>) ]_vars

C15_Witness ==
    /\ Called
    /\ t_call.face = <<>>
    /\ tracker.last_known_direction = "-"
    /\ tracker.yaw_pid.integral # 0
    /\ tracker.vertical_pid.integral # 0
    /\ tracker.yaw_pid.last_time # <<mono_clock - 1>>

(***************************************************************************)
(* C16: the history holds at most center_history_size (20) entries after   *)
(* any sequence of compute_control and reset calls.                        *)
(***************************************************************************)
C16_HistoryBounded == Len(tracker.center_history) <= center_history_size

(***************************************************************************)
(* C17: for a real observation the forward/back command depends on the     *)
(* area alone: 0 inside [face_area_min, face_area_max], backward_speed     *)
(* above it, forward_speed for a positive area below it, 0 for area <= 0.  *)
(***************************************************************************)
C17_ForwardBackByArea ==
    (Called /\ t_call.face # <<>>) =>
        LET area == t_call.face[1].area
        IN  t_call.out[2] =
               IF area <= 0 THEN 0
               ELSE IF area < face_area_min THEN forward_speed
               ELSE IF area <= face_area_max THEN 0
               ELSE backward_speed

C17_Witness ==
    /\ Called
    /\ t_call.face # <<>>
    /\ t_call.face[1].area = face_area_max
    /\ t_call.out[2] = 0
    /\ tracker.yaw_pid.integral # 0
    /\ Len(tracker.center_history) > 2

(***************************************************************************)
(* C18: when the subject is lost and then reacquired, both PID controllers *)
(* are reset before the first update after the reacquisition: after that   *)
(* update each controller is in the state of a controller that was reset   *)
(* and updated once with the new error.                                    *)
(***************************************************************************)
C18_ResetOnReacquire ==
    (Called /\ t_call.face # <<>> /\ t_call.after_loss) =>
        /\ tracker.yaw_pid =
              OnceUpdated(t_call.face[1].center_x - target_x, mono_clock - 1)
        /\ tracker.vertical_pid =
              OnceUpdated(t_call.face[1].center_y - target_y, mono_clock - 1)

(***************************************************************************)
(* C19: the command an iteration sends is the forced descent (0,0,-10,0)   *)
(* whenever the altitude read in that iteration is above height_limit,     *)
(* whatever compute_control returned, and compute_control's command        *)
(* otherwise.                                                              *)
(***************************************************************************)
C19_HeightOverride ==
    Called =>
        /\ t_call.height > height_limit => rc = <<0, 0, -10, 0>>
        /\ t_call.height <= height_limit => rc = t_call.out

C19_Witness ==
    /\ Called
    /\ t_call.height > height_limit
    /\ t_call.out[2] # 0
    /\ t_call.out[3] # 0
    /\ t_call.out[4] # 0
    /\ rc = <<0, 0, -10, 0>>


(***************************************************************************)
(* C20: in every execution of DroneConnection.cleanup both steps are       *)
(* attempted: the stream is stopped (attempted) whether the landing        *)
(* succeeded, raised or was skipped because the drone was not airborne,    *)
(* the landing is attempted whenever the drone is airborne, and no         *)
(* exception of a step leaves cleanup; also when cleanup runs twice.       *)
(***************************************************************************)
C20_BothStepsAttempted ==
    \A i \in 1..Len(runs) :
        /\ runs[i].end = "returned"
        /\ runs[i].stream \in Outcomes
        /\ runs[i].land \in Outcomes \cup {"skipped"}
        /\ runs[i].was_airborne <=> runs[i].land \in Outcomes

(***************************************************************************)
(* C20, as the code has it: every execution of cleanup that returns has    *)
(* attempted both steps, as above; an execution can be cut short only by   *)
(* the sys.exit of a shutdown handler that interrupted it, whose own       *)
(* execution of cleanup returned before.                                   *)
(***************************************************************************)
C20_BothStepsUnlessInterrupted ==
    \A i \in 1..Len(runs) :
        IF runs[i].end = "returned"
        THEN /\ runs[i].stream \in Outcomes
             /\ runs[i].land \in Outcomes \cup {"skipped"}
             /\ runs[i].was_airborne <=> runs[i].land \in Outcomes
        ELSE \E j \in 1..(i - 1) :
                /\ runs[j].by = "handler"
                /\ runs[j].end = "returned"
                /\ \A k \in (j + 1)..i : runs[k].end = "cut"

C20_Witness ==
    /\ main_pc = "exited"
    /\ Len(runs) = 2
    /\ runs[1] = [by |-> "handler", land |-> "raised", was_airborne |-> TRUE,
                  stream |-> "raised", end |-> "returned"]
    /\ runs[2] = [by |-> "main", land |-> "ok", was_airborne |-> TRUE,
                  stream |-> "ok", end |-> "returned"]


(***************************************************************************)
(* Vocabulary of the claims about single process_reading calls.            *)
(***************************************************************************)
\* this step is a process_reading call (a call that changes nothing is a
\* stuttering step)
ReadingStep == wall_clock' = wall_clock

RECURSIVE SumCounts(_)
SumCounts(events) ==
    IF events = <<>> THEN 0
    ELSE events[1].count + SumCounts(Tail(events))

(***************************************************************************)
(* C25: burst completion.  While a burst is open, a call that detects a    *)
(* snap emits nothing, and so does a call made at most time_window after   *)
(* the last snap; the first call that is no snap and comes strictly more   *)
(* than time_window after the last snap returns the accumulated count and  *)
(* clears snap_count and the last-snap time; with no burst open a call     *)
(* that is no snap emits nothing.  With readings arriving for ever, a      *)
(* burst that is open when the snaps of the run are over is emitted.       *)
(***************************************************************************)
C25_BurstCompletion ==
    /\ [][ ReadingStep =>
            LET open == detector.snap_count > 0
                late == g_call'.now - g_last_snap > snap_time_window
            IN  /\ g_call'.is_snap =>
                      /\ g_call'.ret = <<>>
                      /\ detector'.snap_count = detector.snap_count + 1
                /\ (~g_call'.is_snap /\ open /\ ~late) =>
                      /\ g_call'.ret = <<>>
                      /\ detector'.snap_count = detector.snap_count
                /\ (~g_call'.is_snap /\ open /\ late) =>
                      /\ g_call'.ret = << detector.snap_count >>
                      /\ detector'.snap_count = 0
                      /\ detector'.prev_snap_time = <<>>
                /\ (~g_call'.is_snap /\ ~open) => g_call'.ret = <<>> ]_vars
    /\ ( /\ detector.snap_count > 0
         /\ g_snaps = MaxSnaps
         /\ g_last_snap + snap_time_window < MaxTime )
       ~> (detector.snap_count = 0)

C25_Witness ==
    /\ g_call.ret = << 2 >>
    /\ g_call.now = g_last_snap + snap_time_window + 1
    /\ detector.snap_count = 0
    /\ detector.prev_snap_time = <<>>
    /\ g_snaps = 2

(***************************************************************************)
(* C26: a reading whose diff equals the threshold is no edge in either     *)
(* direction: it detects nothing and leaves valid as it was, armed or not; *)
(* so do a reading above the threshold while valid is false and a reading  *)
(* below the threshold while valid is true.                                *)
(***************************************************************************)
C26_NoEdgeAtThreshold ==
    [][ ( /\ ReadingStep
          /\ \/ g_call'.diff = snap_threshold
             \/ (g_call'.diff > snap_threshold /\ ~detector.valid)
             \/ (g_call'.diff < snap_threshold /\ detector.valid) )
        => /\ ~g_call'.is_snap
           /\ detector'.valid = detector.valid
           /\ g_snaps' = g_snaps ]_vars

C26_Witness ==
    /\ g_call.diff = snap_threshold
    /\ g_call.now = wall_clock
    /\ ~g_call.is_snap
    /\ ~detector.valid
    /\ g_snaps = 1
    /\ ~g_low

(***************************************************************************)
(* C28: conservation of snaps.  The snaps detected so far are the sum of   *)
(* the emitted repetition counts plus the current snap_count, and every    *)
(* emitted count is at least 1.                                            *)
(***************************************************************************)
C28_SnapsConserved ==
    /\ g_snaps = SumCounts(g_events) + detector.snap_count
    /\ \A i \in 1..Len(g_events) : g_events[i].count >= 1

C28_Witness ==
    /\ Len(g_events) = 2
    /\ g_events[1].count = 2
    /\ g_events[2].count = 1
    /\ detector.snap_count = 0
    /\ g_snaps = MaxSnaps


(***************************************************************************)
(* C24: every tuple (lr, fb, ud, yaw) compute_control returns is within    *)
(* bounds: lr = 0, fb is 0, forward_speed or backward_speed, |yaw| is at   *)
(* most yaw_speed_limit, and at most search_rotation_speed with fb and ud  *)
(* zero on the loss path, and |ud| is at most vertical_speed_limit.        *)
(***************************************************************************)
Abs(x) == IF x >= 0 THEN x ELSE -x

C24_OutputBounds ==
    Called =>
        /\ t_call.out[1] = 0
        /\ t_call.out[2] \in {0, forward_speed, backward_speed}
        /\ Abs(t_call.out[3]) <= vertical_speed_limit
        /\ Abs(t_call.out[4]) <= yaw_speed_limit
        /\ t_call.face = <<>> =>
              /\ Abs(t_call.out[4]) <= search_rotation_speed
              /\ t_call.out[2] = 0
              /\ t_call.out[3] = 0

C24_Witness ==
    /\ Called
    /\ t_call.face # <<>>
    /\ t_call.out[2] = backward_speed
    /\ t_call.out[4] = yaw_speed_limit
    /\ Abs(t_call.out[3]) = vertical_speed_limit \div 2
    /\ tracker.yaw_pid.prev_error = << 880 - target_x >>


(***************************************************************************)
(* C22: anti-windup.  Over update calls whose errors have the same sign    *)
(* and whose dt is not negative, the magnitude of the integral never       *)
(* decreases from one call to the next, and once it is integral_limit it   *)
(* stays integral_limit; after every update the magnitude of the integral  *)
(* is at most integral_limit.                                              *)
(***************************************************************************)
C22_AntiWindup ==
    [][ p_n' = p_n + 1 =>
          LET lim == IF pid_limit = <<>> THEN 0
                     ELSE pid_limit[1] * ticks_per_second
          IN  /\ pid_limit # <<>> => Abs(controller'.integral) <= lim
              /\ (p_sign' # "mixed" /\ p_dt_ok') =>
                    /\ Abs(controller'.integral) >= Abs(controller.integral)
                    /\ (pid_limit # <<>> /\ Abs(controller.integral) = lim)
                          => Abs(controller'.integral) = lim ]_vars

C22_Witness ==
    /\ pid_limit = << IntegralLimit >>
    /\ p_sign = "pos"
    /\ p_dt_ok
    /\ p_since = 4
    /\ p_call.was = IntegralLimit * ticks_per_second
    /\ p_call.error > 0
    /\ p_call.dt = <<2>>
    /\ controller.integral = IntegralLimit * ticks_per_second

(***************************************************************************)
(* C23: after any update calls followed by reset(), the controller behaves *)
(* like one constructed afresh with the same gains and limits: given the   *)
(* same (error, dt) calls, the two return the same outputs and are in the  *)
(* same internal state.                                                    *)
(***************************************************************************)
C23_ResetIsFresh ==
    twin # <<>> =>
        /\ controller = twin[1]
        /\ p_call.out = p_call.twin_out

C23_Witness ==
    /\ twin # <<>>
    /\ p_since = 2
    /\ p_n = 4
    /\ p_call.dt = <<>>
    /\ p_call.out # <<>>
    /\ controller.integral # 0
    /\ controller.prev_error = << 50 >>


(***************************************************************************)
(* C21: a fatal setup failure (the serial port cannot be opened in the     *)
(* sensing process; the classifier file is missing, or connect or takeoff  *)
(* fails, in the control process) ends the process with a non-zero exit    *)
(* status, after the best-effort cleanup where the device was engaged;     *)
(* the process never exits with status 0 after such a failure.             *)
(***************************************************************************)
C21_SetupFailureExitsNonZero ==
    /\ (main_pc = "exited" /\ setup_failure # "none") =>
          /\ exit_status # 0
          /\ setup_failure # "classifier_missing" =>
                \E i \in 1..Len(runs) : runs[i].end = "returned"
    /\ (sense_pc = "exited" /\ sense_failure) =>
          /\ sense_exit # 0
          /\ sense_closed


(***************************************************************************)
(* C27: for every CIRCLE_MOTION dispatched the tracker is reset (both PID  *)
(* axes and the history) before the maneuver sends its first motion        *)
(* command; and however the maneuver ends (its duration is over, the quit  *)
(* key, an error at any step of execute), the last motion command it sent  *)
(* is the stop command (0,0,0,0), before tracking resumes or the process   *)
(* shuts down.                                                             *)
(***************************************************************************)
\* the maneuver is over and the control loop has not sent a command since
ManeuverOver ==
    \/ m_pc = "escaped"
    \/ m_pc = "idle" /\ m_outcome # "none" /\ t_call = NoTrackCall

C27_ResetThenStop ==
    /\ m_pc \in {"setup", "loop", "finally"} =>
          /\ tracker.yaw_pid = NewPID
          /\ tracker.vertical_pid = NewPID
          /\ tracker.center_history = <<>>
    /\ ManeuverOver =>
          \* of the commands the maneuver sent, the last is the stop
          /\ m_last # <<>> => m_last = << <<0, 0, 0, 0>> >>
          \* and the drone is left with the stop command
          /\ rc = <<0, 0, 0, 0>>

=============================================================================
